---- MODULE Spec2Model ----
(***************************************************************************)
(* Model of geom.js (chrisnichols/CompGeom.js): the minimum enclosing disc *)
(* and the convex hull of a sequence of planar points, with the numeric    *)
(* primitives they use.                                                    *)
(*                                                                         *)
(* Numbers.  The program computes with IEEE doubles.  The inputs of the    *)
(* model are points with small integer coordinates, so every number the    *)
(* program computes is either a rational or the square root of a rational  *)
(* (Math.sqrt in distance).  A number is the record [s, n, d] that stands  *)
(* for  s * sqrt(n / d)  with s in {-1, 0, 1}; d = 0 encodes the           *)
(* non-finite doubles a division by zero produces: n = 1 is +/-Infinity    *)
(* and n = 0 is NaN.  The comparisons below are the exact real ones with   *)
(* the program's tolerance 0.00001.                                        *)
(*                                                                         *)
(* Points.  A JavaScript point [x, y] is the tuple <<x, y>>; a computed    *)
(* centre [X / W, Y / W] is the tuple <<X, Y, W>> (W = 0: the division by  *)
(* the determinant D = 0, coordinates non-finite).                         *)
(*                                                                         *)
(* Arrays.  A JavaScript array is a sequence (index i there is i + 1       *)
(* here).  A function that receives the caller's array returns a record    *)
(* with the content of that array after the call next to the value it      *)
(* returns, so that writing through to the argument is expressible.        *)
(***************************************************************************)
EXTENDS Integers, Sequences, FiniteSets, TLC

\* Largest coordinate of an input point, and the largest input length.
MaxCoord == 2
MaxLen == 3

\* 1 / 0.00001, the tolerance of tolerablyEqual.
InvEpsilon == 100000

\* JavaScript null / undefined (a value no array of points equals).
Null == << <<>> >>

Abs(i) == IF i < 0 THEN -i ELSE i
Sgn(i) == IF i < 0 THEN -1 ELSE IF i = 0 THEN 0 ELSE 1

\* ---------------------------------------------------------------------
\* Numbers
\* ---------------------------------------------------------------------
\* The greatest common divisor of two naturals, not both 0.
RECURSIVE GCD(_, _)
GCD(a, b) == IF b = 0 THEN a ELSE GCD(b, a % b)

\* A number is s * sqrt(n / d) with n / d in lowest terms.
Num(i) == [s |-> Sgn(i), n |-> i * i, d |-> 1]
Root(n, d) ==
    LET g == GCD(n, d)
    IN  [s |-> IF n = 0 THEN 0 ELSE 1, n |-> n \div g, d |-> d \div g]
Infinity == [s |-> 1, n |-> 1, d |-> 0]
NaN == [s |-> 0, n |-> 0, d |-> 0]
IsFinite(a) == a.d # 0
IsNaN(a) == a.d = 0 /\ a.n = 0

\* a < b on doubles: false when either is NaN.
LessThan(a, b) ==
    IF IsNaN(a) \/ IsNaN(b) THEN FALSE
    ELSE IF ~IsFinite(a) \/ ~IsFinite(b) THEN
        \/ (~IsFinite(a) /\ a.s < 0 /\ (IsFinite(b) \/ b.s > 0))
        \/ (IsFinite(a) /\ ~IsFinite(b) /\ b.s > 0)
    ELSE IF a.s # b.s THEN a.s < b.s
    ELSE IF a.s = 0 THEN FALSE
    ELSE IF a.s > 0 THEN a.n * b.d < b.n * a.d
    ELSE b.n * a.d < a.n * b.d

RECURSIVE CeilSqrtFrom(_, _)
CeilSqrtFrom(c, q) == IF c * c >= q THEN c ELSE CeilSqrtFrom(c + 1, q)
\* The least integer c with c >= sqrt(n / d).
CeilSqrt(n, d) == CeilSqrtFrom(0, (n + d - 1) \div d)

\* | sqrt(hn/hd) - sqrt(ln/ld) | <= 1 / InvEpsilon  for hn/hd > ln/ld >= 0.
\* With k = hn*ld - ln*hd >= 1 and m = hd*ld the distance is
\* (k/m) / (sqrt(hn/hd) + sqrt(ln/ld)), so it exceeds the tolerance as soon
\* as k * InvEpsilon > 3 * m * c with c >= sqrt(ln/ld) (m < InvEpsilon^2 / 4).
\* Otherwise the exact test is evaluated.
RootsWithinEpsilon(hn, hd, ln, ld) ==
    LET k == hn * ld - ln * hd
        m == hd * ld
        c == CeilSqrt(ln, ld)
    IN  IF k > (3 * m * c) \div InvEpsilon THEN FALSE
        ELSE LET e == k * InvEpsilon * InvEpsilon - m
             IN  e <= 0 \/ e * e * ld <= 4 * InvEpsilon * InvEpsilon * m * m * ln

\* Math.abs(a - b) <= 0.00001.  Infinity - Infinity and anything with NaN
\* is NaN, and NaN <= x is false.  For a and b of opposite sign
\* |a - b| >= |a| = sqrt(a.n / a.d) >= 1 / sqrt(a.d), above the tolerance
\* for every denominator below InvEpsilon^2.
tolerablyEqual(a, b) ==
    IF ~IsFinite(a) \/ ~IsFinite(b) THEN FALSE
    ELSE IF a.s * b.s < 0 THEN FALSE
    ELSE IF a.n * b.d = b.n * a.d THEN TRUE
    ELSE IF a.n * b.d > b.n * a.d THEN RootsWithinEpsilon(a.n, a.d, b.n, b.d)
    ELSE RootsWithinEpsilon(b.n, b.d, a.n, a.d)

lessThanOrTolerablyEqual(a, b) == LessThan(a, b) \/ tolerablyEqual(a, b)

\* ---------------------------------------------------------------------
\* Utility functions
\* ---------------------------------------------------------------------

\* The values Math.floor(Math.random() * upperLimit) can take, Math.random()
\* being in [0, 1).
randomIntLessThan(upperLimit) == 0 .. (upperLimit - 1)

\* The sequences of draws the loop of randomPermutation can make on n
\* elements: draws[i] is the j drawn at index i, for i = 1 .. n - 1.
RECURSIVE DrawsUpTo(_)
DrawsUpTo(k) ==
    IF k <= 0 THEN {<<>>}
    ELSE {Append(ds, j) : ds \in DrawsUpTo(k - 1), j \in randomIntLessThan(k)}
Draws(elements) == DrawsUpTo(Len(elements) - 1)

Swap(arr, i, j) == [arr EXCEPT ![i + 1] = arr[j + 1], ![j + 1] = arr[i + 1]]

RECURSIVE randomPermutationLoop(_, _, _)
randomPermutationLoop(randomElements, i, draws) ==
    IF i > 0
    THEN randomPermutationLoop(Swap(randomElements, i, draws[i]), i - 1, draws)
    ELSE randomElements

\* The caller's array is copied (slice) and only the copy is written.
randomPermutation(elements, draws) ==
    LET randomElements == elements
    IN  [elements |-> elements,
         ret |-> randomPermutationLoop(randomElements, Len(randomElements) - 1, draws)]

comparePoints(a, b) == IF a[1] # b[1] THEN a[1] - b[1] ELSE a[2] - b[2]

\* Array.prototype.sort with comparePoints: a stable sort (insertion of each
\* element after the elements that do not compare greater).
RECURSIVE InsertSorted(_, _)
InsertSorted(sorted, p) ==
    IF sorted = <<>> THEN <<p>>
    ELSE IF comparePoints(sorted[Len(sorted)], p) <= 0 THEN Append(sorted, p)
    ELSE Append(InsertSorted(SubSeq(sorted, 1, Len(sorted) - 1), p), sorted[Len(sorted)])
RECURSIVE SortPoints(_)
SortPoints(arr) ==
    IF arr = <<>> THEN <<>>
    ELSE InsertSorted(SortPoints(SubSeq(arr, 1, Len(arr) - 1)), arr[Len(arr)])

\* lexicographicOrder without the copy: the caller's array is sorted.
lexicographicOrderInPlace(points) ==
    [points |-> SortPoints(points), ret |-> SortPoints(points)]

\* The caller's array is copied (slice(0)) and the copy is sorted.
lexicographicOrder(points) ==
    LET orderedPoints == points
    IN  [points |-> points, ret |-> SortPoints(orderedPoints)]

concat(a, b) == IF a # Null /\ b # Null THEN a \o b ELSE Null

\* ---------------------------------------------------------------------
\* General geometry functions
\* ---------------------------------------------------------------------
PX(p) == p[1]
PY(p) == p[2]
PW(p) == IF Len(p) = 3 THEN p[3] ELSE 1
\* A coordinate X / 0 is NaN when X = 0 and an infinity otherwise.
HasNaN(p) == PW(p) = 0 /\ (PX(p) = 0 \/ PY(p) = 0)

\* Math.sqrt(deltaX * deltaX + deltaY * deltaY)
distance(p1, p2) ==
    IF PW(p1) = 0 \/ PW(p2) = 0
    THEN (IF HasNaN(p1) \/ HasNaN(p2) THEN NaN ELSE Infinity)
    ELSE LET deltaX == PX(p1) * PW(p2) - PX(p2) * PW(p1)
             deltaY == PY(p1) * PW(p2) - PY(p2) * PW(p1)
             w == PW(p1) * PW(p2)
         IN  Root(deltaX * deltaX + deltaY * deltaY, w * w)

RIGHT_TURN == -1
NO_TURN == 0
LEFT_TURN == 1

turnDirection(p1, p2, p3) ==
    LET z == (p1[1] - p2[1]) * (p3[2] - p2[2]) - (p1[2] - p2[2]) * (p3[1] - p2[1])
    IN  IF tolerablyEqual(Num(z), Num(0)) THEN NO_TURN
        ELSE IF lessThanOrTolerablyEqual(Num(z), Num(0)) THEN RIGHT_TURN
        ELSE LEFT_TURN

\* twoPointDisc with the distance between the two points as the radius.
twoPointDiscDiameter(p1, p2) ==
    LET center == <<p1[1] + p2[1], p1[2] + p2[2], 2>>
    IN  <<center, distance(p1, p2)>>

\* A disc is <<center, radius>>, the array [center, radius].
twoPointDisc(p1, p2) ==
    LET center == <<p1[1] + p2[1], p1[2] + p2[2], 2>>
        radius == distance(center, p1)
    IN  <<center, radius>>

\* x / D and y / D in lowest terms with the sign moved to the numerators;
\* D = 0 leaves the numerators over 0.
threePointDisc(p1, p2, p3) ==
    LET D == 2 * (p1[1] * (p2[2] - p3[2]) + p2[1] * (p3[2] - p1[2]) + p3[1] * (p1[2] - p2[2]))
        sq1 == p1[1] * p1[1] + p1[2] * p1[2]
        sq2 == p2[1] * p2[1] + p2[2] * p2[2]
        sq3 == p3[1] * p3[1] + p3[2] * p3[2]
        x == sq1 * (p2[2] - p3[2]) + sq2 * (p3[2] - p1[2]) + sq3 * (p1[2] - p2[2])
        y == sq1 * (p3[1] - p2[1]) + sq2 * (p1[1] - p3[1]) + sq3 * (p2[1] - p1[1])
        g == GCD(GCD(Abs(x), Abs(y)), Abs(D))
        center == IF D > 0 THEN <<x \div g, y \div g, D \div g>>
                  ELSE IF D < 0 THEN <<(-x) \div g, (-y) \div g, (-D) \div g>>
                  ELSE <<Sgn(x), Sgn(y), 0>>
        radius == distance(center, p1)
    IN  <<center, radius>>

\* The denominator D of threePointDisc.
threePointDiscD(p1, p2, p3) ==
    2 * (p1[1] * (p2[2] - p3[2]) + p2[1] * (p3[2] - p1[2]) + p3[1] * (p1[2] - p2[2]))

\* pointInDisc with < in place of lessThanOrTolerablyEqual.
pointInDiscStrict(p, disc) == LessThan(distance(disc[1], p), disc[2])

pointInDisc(p, disc) == lessThanOrTolerablyEqual(distance(disc[1], p), disc[2])

\* ---------------------------------------------------------------------
\* Minimum enclosing disc
\* ---------------------------------------------------------------------
RECURSIVE minimumDiscWith2PointsLoop(_, _, _, _, _)
minimumDiscWith2PointsLoop(points, p, q, i, minDisc) ==
    IF i < Len(points)
    THEN minimumDiscWith2PointsLoop(points, p, q, i + 1,
            IF ~pointInDisc(points[i + 1], minDisc)
            THEN threePointDisc(points[i + 1], p, q)
            ELSE minDisc)
    ELSE minDisc

\* minimumDiscWith2Points with the loop started at index 1.
minimumDiscWith2PointsFromOne(points, p, q) ==
    minimumDiscWith2PointsLoop(points, p, q, 1, twoPointDisc(p, q))

minimumDiscWith2Points(points, p, q) ==
    minimumDiscWith2PointsLoop(points, p, q, 0, twoPointDisc(p, q))

\* minimumDiscWithPoint without the loop over the remaining points.
minimumDiscWithPointSeedOnly(points, p) == twoPointDisc(points[1], p)

RECURSIVE minimumDiscWithPointLoop(_, _, _, _)
minimumDiscWithPointLoop(points, p, i, minDisc) ==
    IF i < Len(points)
    THEN minimumDiscWithPointLoop(points, p, i + 1,
            IF ~pointInDisc(points[i + 1], minDisc)
            THEN minimumDiscWith2Points(SubSeq(points, 1, i), points[i + 1], p)
            ELSE minDisc)
    ELSE minDisc

minimumDiscWithPoint(points, p) ==
    minimumDiscWithPointLoop(points, p, 1, twoPointDisc(points[1], p))

RECURSIVE minimumDiscLoop(_, _, _)
minimumDiscLoop(randomPoints, i, minDisc) ==
    IF i < Len(randomPoints)
    THEN minimumDiscLoop(randomPoints, i + 1,
            IF ~pointInDisc(randomPoints[i + 1], minDisc)
            THEN minimumDiscWithPoint(SubSeq(randomPoints, 1, i), randomPoints[i + 1])
            ELSE minDisc)
    ELSE minDisc

\* minimumDisc with the guard points.length > 2.
minimumDiscMoreThanTwo(points, draws) ==
    IF points # Null /\ Len(points) > 2
    THEN LET shuffled == randomPermutation(points, draws)
             randomPoints == shuffled.ret
         IN  [points |-> shuffled.elements,
              ret |-> minimumDiscLoop(randomPoints, 2,
                          twoPointDisc(randomPoints[1], randomPoints[2]))]
    ELSE [points |-> points, ret |-> Null]

\* draws: the values randomIntLessThan returns during the call.
minimumDisc(points, draws) ==
    IF points # Null /\ Len(points) >= 2
    THEN LET shuffled == randomPermutation(points, draws)
             randomPoints == shuffled.ret
         IN  [points |-> shuffled.elements,
              ret |-> minimumDiscLoop(randomPoints, 2,
                          twoPointDisc(randomPoints[1], randomPoints[2]))]
    ELSE [points |-> points, ret |-> Null]

\* The calls threePointDisc(p1, p2, p3) made while a loop runs, each as the
\* triple <<p1, p2, p3>> of its arguments: the calls of the for loop of
\* minimumDiscWith2Points from index i on, ...
RECURSIVE threePointDiscCallsWith2Points(_, _, _, _, _)
threePointDiscCallsWith2Points(points, p, q, i, minDisc) ==
    IF i < Len(points)
    THEN IF ~pointInDisc(points[i + 1], minDisc)
         THEN {<<points[i + 1], p, q>>}
              \cup threePointDiscCallsWith2Points(points, p, q, i + 1,
                        threePointDisc(points[i + 1], p, q))
         ELSE threePointDiscCallsWith2Points(points, p, q, i + 1, minDisc)
    ELSE {}

\* ... of the for loop of minimumDiscWithPoint, through its calls of
\* minimumDiscWith2Points, ...
RECURSIVE threePointDiscCallsWithPoint(_, _, _, _)
threePointDiscCallsWithPoint(points, p, i, minDisc) ==
    IF i < Len(points)
    THEN IF ~pointInDisc(points[i + 1], minDisc)
         THEN threePointDiscCallsWith2Points(SubSeq(points, 1, i), points[i + 1], p, 0,
                  twoPointDisc(points[i + 1], p))
              \cup threePointDiscCallsWithPoint(points, p, i + 1,
                        minimumDiscWith2Points(SubSeq(points, 1, i), points[i + 1], p))
         ELSE threePointDiscCallsWithPoint(points, p, i + 1, minDisc)
    ELSE {}

\* ... and of the for loop of minimumDisc, through its calls of
\* minimumDiscWithPoint.
RECURSIVE threePointDiscCallsLoop(_, _, _)
threePointDiscCallsLoop(randomPoints, i, minDisc) ==
    IF i < Len(randomPoints)
    THEN IF ~pointInDisc(randomPoints[i + 1], minDisc)
         THEN threePointDiscCallsWithPoint(SubSeq(randomPoints, 1, i), randomPoints[i + 1], 1,
                  twoPointDisc(randomPoints[1], randomPoints[i + 1]))
              \cup threePointDiscCallsLoop(randomPoints, i + 1,
                        minimumDiscWithPoint(SubSeq(randomPoints, 1, i), randomPoints[i + 1]))
         ELSE threePointDiscCallsLoop(randomPoints, i + 1, minDisc)
    ELSE {}

\* The calls of threePointDisc during minimumDisc(points) with the given draws.
threePointDiscCalls(points, draws) ==
    IF points # Null /\ Len(points) >= 2
    THEN LET randomPoints == randomPermutation(points, draws).ret
         IN  threePointDiscCallsLoop(randomPoints, 2,
                 twoPointDisc(randomPoints[1], randomPoints[2]))
    ELSE {}

\* ---------------------------------------------------------------------
\* Convex hull
\* ---------------------------------------------------------------------

\* halfHull.splice(k, 1): remove the element at index k.
Splice1(arr, k) == SubSeq(arr, 1, k) \o SubSeq(arr, k + 2, Len(arr))

\* The while loop with the condition === TurnDirection.LEFT_TURN.
RECURSIVE halfConvexHullPruneLeftOnly(_)
halfConvexHullPruneLeftOnly(halfHull) ==
    LET n == Len(halfHull)
    IN  IF n > 2 /\ turnDirection(halfHull[n - 2], halfHull[n - 1], halfHull[n]) = LEFT_TURN
        THEN halfConvexHullPruneLeftOnly(Splice1(halfHull, n - 2))
        ELSE halfHull

\* The while loop of halfConvexHull.
RECURSIVE halfConvexHullPrune(_)
halfConvexHullPrune(halfHull) ==
    LET n == Len(halfHull)
    IN  IF n > 2 /\ turnDirection(halfHull[n - 2], halfHull[n - 1], halfHull[n]) # RIGHT_TURN
        THEN halfConvexHullPrune(Splice1(halfHull, n - 2))
        ELSE halfHull

\* The for loop of halfConvexHull.
RECURSIVE halfConvexHullLoop(_, _, _)
halfConvexHullLoop(points, i, halfHull) ==
    IF i < Len(points)
    THEN halfConvexHullLoop(points, i + 1, halfConvexHullPrune(Append(halfHull, points[i + 1])))
    ELSE halfHull

halfConvexHull(points) == halfConvexHullLoop(points, 2, <<points[1], points[2]>>)

\* reverse() applied to every point as well as to the array.
ReverseDeep(arr) == [k \in 1 .. Len(arr) |-> <<arr[Len(arr) + 1 - k][2], arr[Len(arr) + 1 - k][1]>>]

Reverse(arr) == [k \in 1 .. Len(arr) |-> arr[Len(arr) + 1 - k]]

\* convexHull without the final concat: hull = upperHull.
convexHullUpperOnly(points) ==
    IF points # Null /\ Len(points) > 2
    THEN LET ordered == lexicographicOrder(points)
             orderedPoints == ordered.ret
             upperHull == halfConvexHull(orderedPoints)
         IN  [points |-> ordered.points, ret |-> upperHull]
    ELSE [points |-> points, ret |-> Null]

\* convexHull with lowerHull.pop() in place of lowerHull.splice(0, 1).
convexHullDropLast(points) ==
    IF points # Null /\ Len(points) > 2
    THEN LET ordered == lexicographicOrder(points)
             orderedPoints == ordered.ret
             upperHull == halfConvexHull(orderedPoints)
             lowerHull == halfConvexHull(Reverse(orderedPoints))
         IN  [points |-> ordered.points,
              ret |-> concat(upperHull, SubSeq(lowerHull, 1, Len(lowerHull) - 1))]
    ELSE [points |-> points, ret |-> Null]

\* orderedPoints is the copy lexicographicOrder returns; reverse() is applied
\* to that copy.
convexHull(points) ==
    IF points # Null /\ Len(points) > 2
    THEN LET ordered == lexicographicOrder(points)
             orderedPoints == ordered.ret
             upperHull == halfConvexHull(orderedPoints)
             lowerHull == halfConvexHull(Reverse(orderedPoints))
         IN  [points |-> ordered.points,
              ret |-> concat(upperHull, Splice1(lowerHull, 0))]
    ELSE [points |-> points, ret |-> Null]

\* ---------------------------------------------------------------------
\* Calls of the library functions on a caller's array
\* ---------------------------------------------------------------------
VARIABLES
    points,         \* the caller's array (or Null)
    fn,             \* the function called last ("none" before the first call)
    ret,            \* the value that call returned
    pc,             \* where a convexHull or halfConvexHull call run step by step stands
    orderedPoints,  \* the array halfConvexHull works on
    upperHull,      \* convexHull's upperHull
    halfHull,       \* halfConvexHull's halfHull
    i,              \* halfConvexHull's i
    gPoints,            \* the page's globals ...
    gPointRadius,
    gCurrentAlgorithm,  \* Undefined before init: var gCurrentAlgorithm;
    gMinDisc,
    gConvexHull,
    gSupportsStorage,
    isTouchDevice,      \* window.hasOwnProperty('ontouchstart')
    hasLocalStorage,    \* window.hasOwnProperty('localStorage') && window.localStorage !== null
    storedPoints        \* localStorage.getItem('points'), Null when there is none

callVars == <<points, fn, ret>>
hullVars == <<pc, orderedPoints, upperHull, halfHull, i>>
pageVars == <<gPoints, gPointRadius, gCurrentAlgorithm, gMinDisc, gConvexHull, gSupportsStorage>>
appVars == <<pageVars, isTouchDevice, hasLocalStorage, storedPoints>>
vars == <<callVars, hullVars, appVars>>

Coords == 0 .. MaxCoord
Grid == Coords \X Coords
RECURSIVE SeqsUpTo(_)
SeqsUpTo(k) ==
    IF k = 0 THEN {<<>>}
    ELSE LET shorter == SeqsUpTo(k - 1)
         IN  shorter \cup {Append(sq, p) : sq \in {t \in shorter : Len(t) = k - 1}, p \in Grid}
\* Inputs next to the exhaustive ones: concrete scenarios 1 and 3 of the
\* specification (a triangle, a square), a triangle with a point inside, a
\* line with a repeated point, and two points repeated.
Triangle == << <<0, 0>>, <<4, 0>>, <<0, 4>> >>
Square == << <<0, 0>>, <<2, 0>>, <<2, 2>>, <<0, 2>> >>
TriangleWithInside == << <<0, 0>>, <<1, 1>>, <<2, 1>>, <<1, 2>> >>
LineWithRepeat == << <<0, 0>>, <<1, 0>>, <<2, 0>>, <<1, 0>> >>
TwoPointsRepeated == << <<1, 1>>, <<0, 0>>, <<1, 1>>, <<0, 0>> >>
\* A triangle with a vertex repeated and the midpoint of a side.
TriangleWithRepeat == << <<0, 0>>, <<2, 0>>, <<1, 2>>, <<1, 0>>, <<0, 0>> >>
Scenarios ==
    {Triangle, Square, TriangleWithInside, LineWithRepeat, TwoPointsRepeated, TriangleWithRepeat}
Inputs == SeqsUpTo(MaxLen) \cup Scenarios \cup {Null}

\* No call is being run step by step.
HullIdle ==
    /\ pc = "idle"
    /\ orderedPoints = <<>>
    /\ upperHull = <<>>
    /\ halfHull = <<>>
    /\ i = 0

\* The value of a variable that was declared and not assigned, told apart
\* from the values of Algorithm.
Undefined == -1

\* The globals as the script leaves them when it is loaded.
PageLoaded ==
    /\ gPoints = <<>>
    /\ gPointRadius = 4
    /\ gCurrentAlgorithm = Undefined
    /\ gMinDisc = Null
    /\ gConvexHull = Null
    /\ gSupportsStorage = FALSE

\* No page: the library functions are called on their own.
AppIdle ==
    /\ PageLoaded
    /\ isTouchDevice = FALSE
    /\ hasLocalStorage = FALSE
    /\ storedPoints = Null

Init ==
    /\ points \in Inputs
    /\ fn = "none"
    /\ ret = Null
    /\ HullIdle
    /\ AppIdle

\* Each behaviour is one call of one function on the caller's array.
CallMinimumDisc ==
    /\ fn = "none"
    /\ \E draws \in Draws(points) :
        LET r == minimumDisc(points, draws)
        IN  /\ points' = r.points
            /\ fn' = "minimumDisc"
            /\ ret' = r.ret
    /\ UNCHANGED <<hullVars, appVars>>

CallConvexHull ==
    /\ fn = "none"
    /\ LET r == convexHull(points)
       IN  /\ points' = r.points
           /\ fn' = "convexHull"
           /\ ret' = r.ret
    /\ UNCHANGED <<hullVars, appVars>>

\* randomPermutation and lexicographicOrder read elements.length: they are
\* called on arrays only.
CallRandomPermutation ==
    /\ fn = "none"
    /\ points # Null
    /\ \E draws \in Draws(points) :
        LET r == randomPermutation(points, draws)
        IN  /\ points' = r.elements
            /\ fn' = "randomPermutation"
            /\ ret' = r.ret
    /\ UNCHANGED <<hullVars, appVars>>

CallLexicographicOrder ==
    /\ fn = "none"
    /\ points # Null
    /\ LET r == lexicographicOrder(points)
       IN  /\ points' = r.points
           /\ fn' = "lexicographicOrder"
           /\ ret' = r.ret
    /\ UNCHANGED <<hullVars, appVars>>

Next ==
    \/ CallMinimumDisc
    \/ CallConvexHull
    \/ CallRandomPermutation
    \/ CallLexicographicOrder

Spec == Init /\ [][Next]_vars

\* ---------------------------------------------------------------------
\* convexHull and halfConvexHull, one step of their loops at a time
\* ---------------------------------------------------------------------

\* halfConvexHull(arr) up to its for loop.
halfConvexHullEnter(arr) ==
    /\ orderedPoints' = arr
    /\ halfHull' = <<arr[1], arr[2]>>
    /\ i' = 2
    /\ pc' = "for"

\* convexHull(points) up to the for loop of its first halfConvexHull call, or
\* to its return when the guard fails.
convexHullBegin ==
    /\ pc = "idle"
    /\ fn' = "convexHull"
    /\ IF points # Null /\ Len(points) > 2
       THEN LET ordered == lexicographicOrder(points)
            IN  /\ points' = ordered.points
                /\ halfConvexHullEnter(ordered.ret)
                /\ UNCHANGED <<ret, upperHull>>
       ELSE /\ ret' = Null
            /\ pc' = "done"
            /\ UNCHANGED <<points, orderedPoints, upperHull, halfHull, i>>
    /\ UNCHANGED appVars

\* halfConvexHull(points) called on its own; it reads points[0] and points[1].
halfConvexHullBegin ==
    /\ pc = "idle"
    /\ points # Null /\ Len(points) >= 2
    /\ fn' = "halfConvexHull"
    /\ halfConvexHullEnter(points)
    /\ UNCHANGED <<points, ret, upperHull>>
    /\ UNCHANGED appVars

\* The condition of the while loop.
whileCondition ==
    LET n == Len(halfHull)
    IN  n > 2 /\ turnDirection(halfHull[n - 2], halfHull[n - 1], halfHull[n]) # RIGHT_TURN

\* for: i < points.length; halfHull.push(points[i]); n = halfHull.length
forPush ==
    /\ pc = "for"
    /\ i < Len(orderedPoints)
    /\ halfHull' = Append(halfHull, orderedPoints[i + 1])
    /\ pc' = "while"
    /\ UNCHANGED <<callVars, orderedPoints, upperHull, i>>
    /\ UNCHANGED appVars

\* while with the condition true, but halfHull.splice(n - 2, 0).
whileSpliceNothing ==
    /\ pc = "while"
    /\ whileCondition
    /\ UNCHANGED vars

\* Leaves the while loop after one splice: if in place of while.
whileSpliceOnce ==
    /\ pc = "while"
    /\ whileCondition
    /\ halfHull' = Splice1(halfHull, Len(halfHull) - 2)
    /\ i' = i + 1
    /\ pc' = "for"
    /\ UNCHANGED <<callVars, orderedPoints, upperHull>>
    /\ UNCHANGED appVars

\* while with the condition true: halfHull.splice(n - 2, 1); n = halfHull.length
whileSplice ==
    /\ pc = "while"
    /\ whileCondition
    /\ halfHull' = Splice1(halfHull, Len(halfHull) - 2)
    /\ UNCHANGED <<callVars, pc, orderedPoints, upperHull, i>>
    /\ UNCHANGED appVars

\* while with the condition false; i += 1
whileExit ==
    /\ pc = "while"
    /\ ~whileCondition
    /\ i' = i + 1
    /\ pc' = "for"
    /\ UNCHANGED <<callVars, orderedPoints, upperHull, halfHull>>
    /\ UNCHANGED appVars

\* return halfHull, to the caller of halfConvexHull(points).
halfConvexHullReturn ==
    /\ pc = "for"
    /\ i >= Len(orderedPoints)
    /\ fn = "halfConvexHull"
    /\ ret' = halfHull
    /\ pc' = "done"
    /\ UNCHANGED <<points, fn, orderedPoints, upperHull, halfHull, i>>
    /\ UNCHANGED appVars

\* return halfHull, to upperHull = ...; orderedPoints.reverse(); and
\* halfConvexHull(orderedPoints) up to its for loop.
upperHullReturn ==
    /\ pc = "for"
    /\ i >= Len(orderedPoints)
    /\ fn = "convexHull"
    /\ upperHull = <<>>
    /\ upperHull' = halfHull
    /\ halfConvexHullEnter(Reverse(orderedPoints))
    /\ UNCHANGED callVars
    /\ UNCHANGED appVars

\* return halfHull, to lowerHull = ...; lowerHull.splice(0, 1);
\* hull = concat(upperHull, lowerHull); return hull
lowerHullReturn ==
    /\ pc = "for"
    /\ i >= Len(orderedPoints)
    /\ fn = "convexHull"
    /\ upperHull # <<>>
    /\ ret' = concat(upperHull, Splice1(halfHull, 0))
    /\ pc' = "done"
    /\ UNCHANGED <<points, fn, orderedPoints, upperHull, halfHull, i>>
    /\ UNCHANGED appVars

\* convexHull called on the caller's array, or halfConvexHull called on it as
\* a sequence of points.
NextHull ==
    \/ convexHullBegin
    \/ halfConvexHullBegin
    \/ forPush
    \/ whileSplice
    \/ whileExit
    \/ halfConvexHullReturn
    \/ upperHullReturn
    \/ lowerHullReturn

SpecHull == Init /\ [][NextHull]_vars

\* The steps of a convexHull call that has started.
StepConvexHull ==
    \/ forPush
    \/ whileSplice
    \/ whileExit
    \/ upperHullReturn
    \/ lowerHullReturn

NextConvexHull == convexHullBegin \/ StepConvexHull

SpecConvexHull == Init /\ [][NextConvexHull]_vars

\* JavaScript runs a function to completion: a call that has started takes
\* its next step.  Nothing makes a caller call.
FairSpecConvexHull == SpecConvexHull /\ WF_vars(StepConvexHull)

\* ---------------------------------------------------------------------
\* The page: init and the clicks on the canvas
\* ---------------------------------------------------------------------
MIN_DISC == 0
CONVEX_HULL == 1
NUM_ALGORITHMS == 2

\* Most points a page holds here: a click that would add one more is left out.
MaxPoints == 3
\* The clicked points [x, y]: a lattice of points further apart than
\* 2 * radius, and one point within 2 * radius of four of them.
MaxClick == 1
Clicks(radius) ==
    {<<k * (2 * radius + 2), l * (2 * radius + 2)>> : k, l \in 0 .. MaxClick}
    \cup {<<radius + 1, radius + 1>>}

\* a <= b on doubles that are not NaN.
LessThanOrEqual(a, b) == ~LessThan(b, a)

\* JSON.stringify of an array of points, and JSON.parse of that text.
JSONstringify(value) == <<"JSON", value>>
JSONparse(text) == text[2]

\* The for loop of updatePointSet from index k on: the index it breaks at,
\* or -1.
RECURSIVE updatePointSetLoop(_, _, _, _)
updatePointSetLoop(pts, clickedPoint, tolerance, k) ==
    IF k < Len(pts)
    THEN LET curPoint == <<pts[k + 1][1], pts[k + 1][2]>>
         IN  IF LessThanOrEqual(distance(curPoint, clickedPoint), Num(tolerance))
             THEN k
             ELSE updatePointSetLoop(pts, clickedPoint, tolerance, k + 1)
    ELSE -1

\* updatePointSet with gPoints.push(clickedPoint) on both branches.
updatePointSetAlwaysPush(pts, clickedPoint, radius) == Append(pts, clickedPoint)

\* gPoints after updatePointSet(clickedPoint).
updatePointSet(pts, clickedPoint, radius) ==
    LET tolerance == 2 * radius
        pointIndex == updatePointSetLoop(pts, clickedPoint, tolerance, 0)
    IN  IF pointIndex # -1
        THEN Splice1(pts, pointIndex)
        ELSE Append(pts, clickedPoint)

\* updateDerivedGeometry that leaves gMinDisc and gConvexHull as they are.
updateDerivedGeometryNothing(algorithm, pts, draws, minDisc, hull) ==
    [gPoints |-> pts, gMinDisc |-> minDisc, gConvexHull |-> hull]

\* gPoints, gMinDisc and gConvexHull after updateDerivedGeometry().
updateDerivedGeometry(algorithm, pts, draws, minDisc, hull) ==
    IF algorithm = MIN_DISC
    THEN LET r == minimumDisc(pts, draws)
         IN  [gPoints |-> r.points, gMinDisc |-> r.ret, gConvexHull |-> hull]
    ELSE IF algorithm = CONVEX_HULL
    THEN LET r == convexHull(pts)
         IN  [gPoints |-> r.points, gMinDisc |-> minDisc, gConvexHull |-> r.ret]
    ELSE [gPoints |-> pts, gMinDisc |-> minDisc, gConvexHull |-> hull]

randomAlgorithm == randomIntLessThan(NUM_ALGORITHMS)

\* A browser opens the page: the script is loaded, and the storage holds
\* nothing yet.
InitApp ==
    /\ points = Null
    /\ fn = "none"
    /\ ret = Null
    /\ HullIdle
    /\ PageLoaded
    /\ isTouchDevice \in BOOLEAN
    /\ hasLocalStorage \in BOOLEAN
    /\ storedPoints = Null

\* init(), run once the page has loaded.
init ==
    /\ gCurrentAlgorithm = Undefined
    /\ \E algorithm \in randomAlgorithm :
        /\ gCurrentAlgorithm' = algorithm
        /\ gSupportsStorage' = hasLocalStorage
        /\ IF hasLocalStorage /\ storedPoints # Null
           THEN \E draws \in Draws(JSONparse(storedPoints)) :
                    LET g == updateDerivedGeometry(algorithm, JSONparse(storedPoints), draws,
                                                   gMinDisc, gConvexHull)
                    IN  /\ gPoints' = g.gPoints
                        /\ gMinDisc' = g.gMinDisc
                        /\ gConvexHull' = g.gConvexHull
           ELSE UNCHANGED <<gPoints, gMinDisc, gConvexHull>>
    /\ gPointRadius' = IF isTouchDevice THEN 20 ELSE gPointRadius
    /\ UNCHANGED <<callVars, hullVars, isTouchDevice, hasLocalStorage, storedPoints>>

\* onClick(e), the listener init registers: updatePointSet and
\* updateDerivedGeometry.
onClick ==
    /\ gCurrentAlgorithm # Undefined
    /\ \E clickedPoint \in Clicks(gPointRadius) :
        LET pts == updatePointSet(gPoints, clickedPoint, gPointRadius)
        IN  /\ Len(pts) <= MaxPoints
            /\ storedPoints' = IF gSupportsStorage THEN JSONstringify(pts) ELSE storedPoints
            /\ \E draws \in Draws(pts) :
                LET g == updateDerivedGeometry(gCurrentAlgorithm, pts, draws,
                                               gMinDisc, gConvexHull)
                IN  /\ gPoints' = g.gPoints
                    /\ gMinDisc' = g.gMinDisc
                    /\ gConvexHull' = g.gConvexHull
    /\ UNCHANGED <<callVars, hullVars, gPointRadius, gCurrentAlgorithm, gSupportsStorage,
                   isTouchDevice, hasLocalStorage>>

\* The page is loaded anew: the script sets its globals again and the
\* storage keeps its item.
reload ==
    /\ gCurrentAlgorithm # Undefined
    /\ gPoints' = <<>>
    /\ gPointRadius' = 4
    /\ gCurrentAlgorithm' = Undefined
    /\ gMinDisc' = Null
    /\ gConvexHull' = Null
    /\ gSupportsStorage' = FALSE
    /\ UNCHANGED <<callVars, hullVars, isTouchDevice, hasLocalStorage, storedPoints>>

NextApp ==
    \/ init
    \/ onClick
    \/ reload

SpecApp == InitApp /\ [][NextApp]_vars

\* ---------------------------------------------------------------------
\* Properties
\* ---------------------------------------------------------------------
IsArray(a) == a # Null
Range(arr) == {arr[k] : k \in 1 .. Len(arr)}
Count(arr, v) == Cardinality({k \in 1 .. Len(arr) : arr[k] = v})
IsRearrangement(a, b) ==
    Len(a) = Len(b) /\ \A v \in Range(a) \cup Range(b) : Count(a, v) = Count(b, v)

\* Twice the signed area of the triangle a, b, c.
Cross(a, b, c) == (b[1] - a[1]) * (c[2] - a[2]) - (b[2] - a[2]) * (c[1] - a[1])
Collinear(a, b, c) == Cross(a, b, c) = 0
HasDuplicates(arr) == \E j, k \in 1 .. Len(arr) : j < k /\ arr[j] = arr[k]
HasCollinearTriple(arr) ==
    \E j, k, l \in 1 .. Len(arr) :
        /\ j < k /\ k < l
        /\ Cardinality({arr[j], arr[k], arr[l]}) = 3
        /\ Collinear(arr[j], arr[k], arr[l])
GeneralPosition(arr) ==
    \A j, k, l \in 1 .. Len(arr) : (j < k /\ k < l) => ~Collinear(arr[j], arr[k], arr[l])

\* The coordinate k of a centre as a number.
Coord(c, k) == [s |-> Sgn(c[k]), n |-> IF PW(c) = 0 THEN Abs(Sgn(c[k])) ELSE c[k] * c[k],
                d |-> PW(c) * PW(c)]
\* distance(centre, p) <= radius + 0.00001
WithinRadius(p, disc) ==
    LET dist == distance(disc[1], p)
    IN  LessThan(dist, disc[2]) \/ tolerablyEqual(dist, disc[2])
\* distance(centre, p) <= radius
Encloses(disc, arr) ==
    /\ IsFinite(disc[2])
    /\ \A k \in 1 .. Len(arr) :
         LET dist == distance(disc[1], arr[k])
         IN  dist.n * disc[2].d <= disc[2].n * dist.d
\* The centre is (cx, cy) and the squared radius is r2.
IsCircle(disc, cx, cy, r2) ==
    /\ PW(disc[1]) > 0
    /\ PX(disc[1]) = cx * PW(disc[1])
    /\ PY(disc[1]) = cy * PW(disc[1])
    /\ disc[2].n = r2 * disc[2].d
SameDisc(a, b) ==
    IF a = Null \/ b = Null THEN a = b
    ELSE /\ tolerablyEqual(Coord(a[1], 1), Coord(b[1], 1))
         /\ tolerablyEqual(Coord(a[1], 2), Coord(b[1], 2))
         /\ tolerablyEqual(a[2], b[2])

\* The circle with diameter a b, and the circle through a, b and c (not
\* collinear), from the coordinates relative to a.
DiameterCircle(a, b) ==
    <<<<a[1] + b[1], a[2] + b[2], 2>>,
      Root((a[1] - b[1]) * (a[1] - b[1]) + (a[2] - b[2]) * (a[2] - b[2]), 4)>>
Circumcircle(a, b, c) ==
    LET bx == b[1] - a[1]
        by == b[2] - a[2]
        cx == c[1] - a[1]
        cy == c[2] - a[2]
        det == 2 * (bx * cy - by * cx)
        ux == (cy * (bx * bx + by * by) - by * (cx * cx + cy * cy)) * Sgn(det)
        uy == (bx * (cx * cx + cy * cy) - cx * (bx * bx + by * by)) * Sgn(det)
        w == Abs(det)
    IN  <<<<a[1] * w + ux, a[2] * w + uy, w>>, Root(ux * ux + uy * uy, w * w)>>

\* The smallest circle that contains arr has two points of arr as a diameter
\* or passes through three points of arr that are not collinear.
CandidateDiscs(arr) ==
    LET I == 1 .. Len(arr)
    IN  {DiameterCircle(arr[j], arr[k]) : j, k \in I}
        \cup {Circumcircle(arr[t[1]], arr[t[2]], arr[t[3]]) :
                t \in {u \in I \X I \X I :
                         u[1] < u[2] /\ u[2] < u[3]
                         /\ ~Collinear(arr[u[1]], arr[u[2]], arr[u[3]])}}

DiscCall == fn = "minimumDisc" /\ IsArray(points) /\ Len(points) >= 2
HullCall == fn = "convexHull" /\ IsArray(points) /\ Len(points) >= 3

\* C1: the disc minimumDisc returns for an input of 2 or more points
\* (duplicates and collinear points included, whatever randomPermutation
\* drew) has every input point within radius + 0.00001 of its centre.
C1_DiscContainsEveryPoint ==
    DiscCall =>
        /\ ret # Null
        /\ \A k \in 1 .. Len(points) : WithinRadius(points[k], ret)

C1_Witness ==
    /\ DiscCall
    /\ Len(points) = 4
    /\ HasDuplicates(points)
    /\ HasCollinearTriple(points)
    /\ ret # Null

\* C2: the disc minimumDisc returns is minimal: no circle that contains all
\* input points has a strictly smaller radius; the triangle (0,0),(4,0),(0,4)
\* gets centre (2,2) and radius 2*sqrt(2), the square (0,0),(2,0),(2,2),(0,2)
\* centre (1,1) and radius sqrt(2).
C2_DiscIsMinimal ==
    DiscCall =>
        /\ ret # Null
        /\ IsFinite(ret[2])
        /\ \A c \in CandidateDiscs(points) :
             Encloses(c, points) => ~LessThan(c[2], ret[2])
        /\ (points = Triangle => IsCircle(ret, 2, 2, 8))
        /\ (points = Square => IsCircle(ret, 1, 1, 2))

C2_Witness ==
    /\ DiscCall
    /\ points = Square
    /\ IsCircle(ret, 1, 1, 2)

\* p is inside or on the boundary of the closed polygon poly: it is on the
\* same side of (or on) the line of every edge, the closing edge included.
InsideOrOn(p, poly) ==
    LET n == Len(poly)
        side(k) == Cross(poly[k], poly[(k % n) + 1], p)
    IN  \/ \A k \in 1 .. n : side(k) >= 0
        \/ \A k \in 1 .. n : side(k) <= 0

\* C3: every vertex convexHull returns for an input of 3 or more points is
\* a point of the input.
C3_HullVerticesAreInputPoints ==
    HullCall =>
        /\ ret # Null
        /\ \A k \in 1 .. Len(ret) : ret[k] \in Range(points)

C3_Witness ==
    /\ HullCall
    /\ Len(points) = 4
    /\ ret # Null
    /\ Range(ret) # Range(points)

\* C4: for an input of 3 or more points in general position (no two equal,
\* no three on a line), every input point that is not a vertex of the
\* returned hull is inside or on the boundary of the polygon of the
\* returned vertices.
C4_HullEnclosesOtherPoints ==
    (HullCall /\ GeneralPosition(points)) =>
        /\ ret # Null
        /\ \A k \in 1 .. Len(points) :
             points[k] \notin Range(ret) => InsideOrOn(points[k], ret)

C4_Witness ==
    /\ HullCall
    /\ GeneralPosition(points)
    /\ ret # Null
    /\ \E k \in 1 .. Len(points) :
         points[k] \notin Range(ret) /\ InsideOrOn(points[k], ret)

\* C5 as stated: the returned hull is an open sequence, its first and last
\* vertex are not the same point, and the triangle (0,0),(4,0),(0,4) gets
\* exactly its 3 vertices.
C5_HullIsOpenSequence ==
    HullCall =>
        /\ ret # Null
        /\ ret[1] # ret[Len(ret)]
        /\ (points = Triangle => Len(ret) = 3)

\* C5 as amended: the returned hull is a closed sequence, its last entry
\* repeats its first vertex, and the triangle (0,0),(4,0),(0,4) gets 4
\* entries: its 3 vertices and the first of them again.
C5_HullIsClosedSequence ==
    HullCall =>
        /\ ret # Null
        /\ Len(ret) >= 3
        /\ ret[1] = ret[Len(ret)]
        /\ (points = Triangle =>
              /\ Len(ret) = 4
              /\ Range(ret) = Range(points)
              /\ Cardinality({ret[1], ret[2], ret[3]}) = 3)

C5_Witness ==
    /\ HullCall
    /\ points = Triangle
    /\ ret # Null
    /\ Len(ret) = 4
    /\ ret[4] = ret[1]

\* C6 as stated: convexHull returns null for every input with 0, 1 or 2
\* distinct points, inputs of 3 or more entries that repeat one or two
\* points included.
C6_NullForTwoDistinctPoints ==
    (fn = "convexHull" /\ IsArray(points) /\ Cardinality(Range(points)) <= 2) => ret = Null

\* C6 as amended: convexHull returns null for every input of 0, 1 or 2
\* entries; an input of 3 or more entries that repeat one or two points gets
\* the 3 entries least point, greatest point, least point (lexicographic).
C6_DegenerateHullForRepeatedPoints ==
    (fn = "convexHull" /\ IsArray(points) /\ Cardinality(Range(points)) <= 2) =>
        IF Len(points) < 3 THEN ret = Null
        ELSE LET least == CHOOSE a \in Range(points) :
                            \A b \in Range(points) : comparePoints(a, b) <= 0
                 greatest == CHOOSE a \in Range(points) :
                            \A b \in Range(points) : comparePoints(b, a) <= 0
             IN  ret # Null /\ ret = <<least, greatest, least>>

C6_Witness ==
    /\ fn = "convexHull"
    /\ IsArray(points)
    /\ Len(points) = 4
    /\ Cardinality(Range(points)) = 2
    /\ ret # Null
    /\ Len(ret) = 3

\* C7: minimumDisc returns null exactly when the input is missing or has
\* fewer than 2 points, convexHull exactly when it is missing or has fewer
\* than 3 points.
C7_NullExactlyOnInsufficientInput ==
    /\ fn = "minimumDisc" => (ret = Null <=> (~IsArray(points) \/ Len(points) < 2))
    /\ fn = "convexHull" => (ret = Null <=> (~IsArray(points) \/ Len(points) < 3))

C7_Witness ==
    /\ fn = "convexHull"
    /\ IsArray(points)
    /\ Len(points) = 2
    /\ ret = Null

\* The orderings of the elements of arr.
Orderings(arr) ==
    {[k \in 1 .. Len(arr) |-> arr[pi[k]]] : pi \in Permutations(1 .. Len(arr))}
\* The values randomPermutation(arr) can return.
PossiblePermutations(arr) == {randomPermutation(arr, draws).ret : draws \in Draws(arr)}

\* C8: each ordering of the input elements, the input order included, is a
\* value randomPermutation can return for some sequence of draws, and what
\* it returns is a rearrangement of the input elements.
C8_EveryOrderingIsPossible ==
    (fn = "randomPermutation" /\ IsArray(points)) =>
        /\ Orderings(points) \subseteq PossiblePermutations(points)
        /\ IsRearrangement(ret, points)

\* The values minimumDisc(arr) can return.
PossibleDiscs(arr) == {minimumDisc(arr, draws).ret : draws \in Draws(arr)}

\* C9: two runs on the same input return the same result: the disc one run
\* of minimumDisc returned and the disc any other run returns, whatever it
\* draws, have centres and radii that agree within 0.00001; the sequence a
\* run of convexHull returned is the one another run returns.
C9_ResultIndependentOfDraws ==
    /\ DiscCall => \A other \in PossibleDiscs(points) : SameDisc(ret, other)
    /\ HullCall => ret = convexHull(points).ret

\* A disc returned for 4 distinct points that the runs shuffle into more
\* than one order, with more than one seed disc.
C9_Witness ==
    /\ DiscCall
    /\ Len(points) = 4
    /\ ~HasDuplicates(points)
    /\ ret # Null
    /\ Cardinality(PossiblePermutations(points)) > 1
    /\ Cardinality({twoPointDisc(rp[1], rp[2]) : rp \in PossiblePermutations(points)}) > 1

\* C10: a call of minimumDisc, convexHull, randomPermutation or
\* lexicographicOrder leaves the caller's array as it was: same length, same
\* points, same order.
C10_CallerArrayUnchanged == [][points' = points]_vars

C10_Witness ==
    /\ fn = "lexicographicOrder"
    /\ IsArray(points)
    /\ Len(points) >= 3
    /\ ret # points
    /\ IsRearrangement(ret, points)

\* C11: during any run of minimumDisc, on inputs with repeated and collinear
\* points too, threePointDisc is never called with three collinear points (its
\* denominator D is never 0), and the centre and the radius of the returned
\* disc are finite.
C11_NoCollinearThreePointDisc ==
    DiscCall =>
        /\ \A draws \in Draws(points) :
             \A c \in threePointDiscCalls(points, draws) :
                 threePointDiscD(c[1], c[2], c[3]) # 0
        /\ PW(ret[1]) # 0
        /\ IsFinite(ret[2])
\* minimumDisc ran on an input with a repeated point and three collinear
\* points, and called threePointDisc.
C11_Witness ==
    /\ DiscCall
    /\ HasDuplicates(points)
    /\ HasCollinearTriple(points)
    /\ \E draws \in Draws(points) : threePointDiscCalls(points, draws) # {}

\* Every three consecutive points of the chain make a right turn.
RightTurning(chain) ==
    \A k \in 1 .. Len(chain) - 2 :
        turnDirection(chain[k], chain[k + 1], chain[k + 2]) = RIGHT_TURN

\* C12: in halfConvexHull, for every input sequence, before the for loop,
\* after each of its iterations and on return, every three consecutive points
\* of the chain make a RIGHT_TURN, the chain starts with the first point of
\* the input and it ends with the last point taken from the input (on return,
\* the last point of the input).
C12_ChainIsRightTurning ==
    pc = "for" =>
        /\ RightTurning(halfHull)
        /\ halfHull[1] = orderedPoints[1]
        /\ halfHull[Len(halfHull)] = orderedPoints[i]
        /\ i <= Len(orderedPoints)
\* halfConvexHull returns a chain of four or more points after its while loop
\* removed a point.
C12_Witness ==
    /\ pc = "for"
    /\ i = Len(orderedPoints)
    /\ Len(halfHull) >= 4
    /\ Len(halfHull) < Len(orderedPoints)

AllCollinear(arr) == \A j, k, l \in 1 .. Len(arr) : Collinear(arr[j], arr[k], arr[l])
\* The segments a b and c d cross: each has its ends strictly on the two
\* sides of the other.
Crossing(a, b, c, d) ==
    /\ Sgn(Cross(a, b, c)) * Sgn(Cross(a, b, d)) < 0
    /\ Sgn(Cross(c, d, a)) * Sgn(Cross(c, d, b)) < 0
NoSelfIntersection(poly) ==
    \A j, k \in 1 .. Len(poly) - 1 : ~Crossing(poly[j], poly[j + 1], poly[k], poly[k + 1])
\* The least and the greatest point of arr in the order of comparePoints.
Least(arr) == CHOOSE p \in Range(arr) : \A q \in Range(arr) : comparePoints(p, q) <= 0
Greatest(arr) == CHOOSE p \in Range(arr) : \A q \in Range(arr) : comparePoints(p, q) >= 0

\* C13: convexHull terminates on every input of 3 or more points, collinear
\* and repeated points included: a started call reaches its return; every
\* pass of the while loop of halfConvexHull removes one point of a chain of 3
\* or more and the chain never has fewer than 2 points; and for an input of
\* collinear points the result is the segment from the least to the greatest
\* point and back, in which no edge crosses another.
C13_ConvexHullTerminates ==
    /\ (fn = "convexHull" /\ pc # "done") ~> (fn = "convexHull" /\ pc = "done")
    /\ [][(pc = "while" /\ pc' = "while")
            => (Len(halfHull) >= 3 /\ Len(halfHull') = Len(halfHull) - 1)]_vars
    /\ [](pc \in {"for", "while"} => Len(halfHull) >= 2)
    /\ []((fn = "convexHull" /\ pc = "done" /\ IsArray(points) /\ Len(points) >= 3)
            => /\ IsArray(ret)
               /\ AllCollinear(points) =>
                    /\ ret = <<Least(points), Greatest(points), Least(points)>>
                    /\ NoSelfIntersection(ret))
\* convexHull returned for an input of 3 or more collinear points, one of
\* them repeated, after its while loop ran.
C13_Witness ==
    /\ fn = "convexHull"
    /\ pc = "done"
    /\ IsArray(points)
    /\ Len(points) > 3
    /\ AllCollinear(points)
    /\ HasDuplicates(points)
    /\ Cardinality(Range(points)) >= 3
    /\ Len(ret) = 3

\* The run step by step returns what convexHull and halfConvexHull return.
StepsAgreeWithCalls ==
    pc = "done" =>
        /\ fn = "convexHull" => ret = convexHull(points).ret
        /\ fn = "halfConvexHull" => ret = halfConvexHull(points)

\* C14: after init and after every click the stored geometry is that of the
\* current point list for the algorithm init selected: under CONVEX_HULL
\* gConvexHull is null exactly when gPoints has fewer than 3 points and is
\* convexHull(gPoints) otherwise; under MIN_DISC gMinDisc is null exactly
\* when gPoints has fewer than 2 points and is a disc minimumDisc(gPoints) can
\* return otherwise; the result of the other algorithm stays null, so the two
\* are never both set.
C14_DerivedGeometryMatchesPoints ==
    gCurrentAlgorithm # Undefined =>
        /\ gCurrentAlgorithm \in {MIN_DISC, CONVEX_HULL}
        /\ gCurrentAlgorithm = CONVEX_HULL =>
            /\ gConvexHull = Null <=> Len(gPoints) < 3
            /\ gConvexHull = convexHull(gPoints).ret
            /\ gMinDisc = Null
        /\ gCurrentAlgorithm = MIN_DISC =>
            /\ gMinDisc = Null <=> Len(gPoints) < 2
            /\ gMinDisc \in PossibleDiscs(gPoints)
            /\ gConvexHull = Null
        /\ ~(gMinDisc # Null /\ gConvexHull # Null)
\* Clicks have stored 3 points, kept in the storage, and the hull of the
\* 3 points is set.
C14_Witness ==
    /\ gCurrentAlgorithm = CONVEX_HULL
    /\ Len(gPoints) = 3
    /\ gConvexHull # Null
    /\ storedPoints = JSONstringify(gPoints)

\* The points of arr within 2 * radius of c, by their indices.
Near(arr, c, radius) ==
    {k \in 1 .. Len(arr) :
        (arr[k][1] - c[1]) * (arr[k][1] - c[1]) + (arr[k][2] - c[2]) * (arr[k][2] - c[2])
            <= (2 * radius) * (2 * radius)}
Without(arr, k) == [j \in 1 .. Len(arr) - 1 |-> IF j < k THEN arr[j] ELSE arr[j + 1]]
Least1(S) == CHOOSE k \in S : \A j \in S : k <= j
\* A step from gPoints to gPoints' is the click on c.
IsClickOn(c) ==
    IF Near(gPoints, c, gPointRadius) # {}
    THEN gPoints' = Without(gPoints, Least1(Near(gPoints, c, gPointRadius)))
    ELSE gPoints' = Append(gPoints, c)

\* C15: from an empty point list and with gPointRadius as init left it, no
\* two points of gPoints are ever within 2 * gPointRadius of each other; a
\* click within that distance of a stored point removes the first such point
\* of the list and adds nothing, any other click appends the clicked point,
\* and so every click changes the length of the list by exactly one.
C15_ClicksKeepPointsApart ==
    /\ [](\A k \in 1 .. Len(gPoints) : Near(gPoints, gPoints[k], gPointRadius) = {k})
    /\ [][(gCurrentAlgorithm # Undefined /\ gCurrentAlgorithm' # Undefined)
            => /\ \E c \in Clicks(gPointRadius) : IsClickOn(c)
               /\ Len(gPoints') - Len(gPoints) \in {-1, 1}
               /\ gPointRadius' = gPointRadius]_vars
\* The list holds 3 points, and a click there is within 2 * gPointRadius of
\* more than one of them.
C15_Witness ==
    /\ gCurrentAlgorithm # Undefined
    /\ Len(gPoints) = 3
    /\ \E c \in Clicks(gPointRadius) : Cardinality(Near(gPoints, c, gPointRadius)) >= 2

====
